---- MODULE Spec2Model ----
(***************************************************************************)
(* Process monitoring tool (Banking_Management_System_Linux.c): the       *)
(* /proc snapshot, the ProcessCollection built by                         *)
(* build_process_hierarchy / discover_children, the query and action      *)
(* functions, and main's dispatch.                                        *)
(*                                                                         *)
(* A ProcessNode* is modelled as the node's index in collection->nodes    *)
(* (every node is put into the collection right after create_node), NULL  *)
(* is 0.  kill() is modelled as an append to the log `signals`, printf as *)
(* an append to `stdout`.                                                  *)
(***************************************************************************)
EXTENDS Integers, Sequences, FiniteSets, TLC

\* ---------------------------------------------------------------- bounds
\* Process ids of the modelled /proc namespace are 1..MaxPid.
MaxPid == 4

\* Changes of the process table that are followed while discovery runs.
MaxChanges == 1

Pids == 1..MaxPid
NULL == 0

\* init_result: number of ints of the block malloc'ed for result_ids
RESULT_CAPACITY == 1000

\* The deepest nesting of discover_children calls that is followed: one more
\* than a nesting on pairwise distinct ids can reach.
MaxDepth == MaxPid + 1

VARIABLES
    proc,         \* the /proc namespace: pid -> [present, parent_id, defunct_flag]
    changes,      \* number of changes of the process table since main started
    pc,           \* position of main
    argc,         \* main's argc (0 before main has looked at it)
    root_pid,     \* atoi(argv[1])
    target_pid,   \* atoi(argv[2])
    option,       \* argv[3]
    nodes,        \* collection->nodes[0 .. size-1]
    root,         \* collection->root
    stack,        \* active calls of discover_children: [parent_pid, entry]
    signals,      \* kill() calls made so far: <<pid, signal>>
    result,       \* CommandResult.result_ids[0 .. count-1] of the handler that ran
    handler,      \* name of the handler function main called ("" if none)
    stdout,       \* lines printed
    exit_status   \* main's return value (-1 while running)

vars == <<proc, changes, pc, argc, root_pid, target_pid, option, nodes, root, stack,
          signals, result, handler, stdout, exit_status>>

\* ------------------------------------------------------- sequence helpers
RECURSIVE SeqConcat(_, _, _)
\* f[i] \o f[i+1] \o ... \o f[n]
SeqConcat(f, i, n) ==
    IF i > n THEN <<>>
    ELSE IF i = n THEN f[i]
    ELSE LET m == (i + n) \div 2
         IN  SeqConcat(f, i, m) \o SeqConcat(f, m + 1, n)

Range(s) == {s[k] : k \in 1..Len(s)}

\* ------------------------------------------------- process node functions
create_node(pid, ppid, zombie_status) ==
    [id |-> pid, parent_id |-> ppid, defunct_flag |-> zombie_status,
     parent |-> NULL, children |-> <<>>]

\* add_child without the assignment child->parent = parent
add_child_nolink(ns, parent, child) ==
    [ns EXCEPT ![parent].children = Append(@, child)]

add_child(ns, parent, child) ==
    [ns EXCEPT ![parent].children = Append(@, child),
               ![child].parent = parent]

add_to_collection(ns, node) == Append(ns, node)

find_node_by_pid(ns, pid) ==
    IF \E k \in 1..Len(ns) : ns[k].id = pid
    THEN CHOOSE k \in 1..Len(ns) :
            ns[k].id = pid /\ \A j \in 1..(k - 1) : ns[j].id # pid
    ELSE NULL

\* ------------------------------------------------- process data functions
\* fopen("/proc/<pid>/status") succeeds
fetch_ok(pid) == pid \in Pids /\ proc[pid].present

\* the ProcessMetadata filled in by fetch_process_data
fetch_process_data(pid) ==
    [id |-> pid, parent_id |-> proc[pid].parent_id,
     defunct_flag |-> proc[pid].defunct_flag]

\* ---------------------------------------------------------------- init
Absent == [present |-> FALSE, parent_id |-> 0, defunct_flag |-> FALSE]

\* Snapshots with an arbitrary parent in the namespace for every process:
\* self-parented processes, cycles of parent ids, a root whose parent is one
\* of its descendants.
ShapeSnapshots ==
    [Pids -> [present : {TRUE}, parent_id : Pids, defunct_flag : {FALSE}]]

\* Snapshots in which every process has an older parent (parent_id < pid) or
\* parent 0
Forests(entries) ==
    {f \in [Pids -> entries] : \A p \in Pids : f[p].parent_id < p}

\* Forests from which any of the processes may be missing
MissingSnapshots ==
    Forests({Absent} \cup [present : {TRUE}, parent_id : 0..(MaxPid - 1),
                           defunct_flag : {FALSE}])

\* Forests with every combination of zombie flags
ZombieSnapshots ==
    Forests([present : {TRUE}, parent_id : 0..(MaxPid - 1),
             defunct_flag : BOOLEAN])

\* Snapshots in which every process lies on a cycle of parent ids (a process
\* that is its own parent is a cycle of length one), and the forests
LiveSnapshots ==
    {f \in ShapeSnapshots : {f[p].parent_id : p \in Pids} = Pids}
        \cup Forests([present : {TRUE}, parent_id : 0..(MaxPid - 1),
                      defunct_flag : {FALSE}])

\* the state when main is entered, with the snapshot drawn from S
InitWith(S) ==
    /\ proc \in S
    /\ changes = 0
    /\ pc = "start"
    /\ argc = 0
    /\ root_pid = 0
    /\ target_pid = 0
    /\ option = ""
    /\ nodes = <<>>
    /\ root = NULL
    /\ stack = <<>>
    /\ signals = <<>>
    /\ result = <<>>
    /\ handler = ""
    /\ stdout = <<>>
    /\ exit_status = -1

Init == InitWith(ShapeSnapshots \cup MissingSnapshots \cup ZombieSnapshots)

InitLive == InitWith(LiveSnapshots)

\* ------------------------------------------------ tree building functions
\* readdir(dir): /proc lists the process directories in ascending pid order;
\* entry e of the listing is pid e, and the listing ends after MaxPid.
dir_pid(e) == e

\* is_new_child without the "skip if already in collection" test
is_new_child_nofind(ns, pid, parent_pid) ==
    /\ fetch_ok(pid)
    /\ fetch_process_data(pid).parent_id = parent_pid

\* discover_children, the test of one directory entry: the lookup succeeds,
\* the entry is a child of parent_pid and it is not in the collection yet
is_new_child(ns, pid, parent_pid) ==
    /\ fetch_ok(pid)
    /\ fetch_process_data(pid).parent_id = parent_pid
    /\ find_node_by_pid(ns, pid) = NULL

\* insert_child leaving the link to the loop of build_process_hierarchy
insert_child_nolink(ns, data, parent_pid) ==
    add_to_collection(ns, create_node(data.id, data.parent_id, data.defunct_flag))

\* discover_children, "create and add the node" and "link with parent"
insert_child(ns, data, parent_pid) ==
    LET ns1    == add_to_collection(ns,
                      create_node(data.id, data.parent_id, data.defunct_flag))
        node   == Len(ns1)
        parent == find_node_by_pid(ns1, parent_pid)
    IN  IF parent # NULL THEN add_child(ns1, parent, node) ELSE ns1

\* discover_children: the loop goes on with the next directory entry
next_entry(stk) == [stk EXCEPT ![Len(stk)].entry = @ + 1]

\* call_discover_children without the recursive call
call_discover_children_norec(stk, pid) == next_entry(stk)

\* discover_children: the recursive call discover_children(collection, pid);
\* the caller goes on with its next entry when the call returns
call_discover_children(stk, pid) ==
    Append(next_entry(stk), [parent_pid |-> pid, entry |-> 1])

RECURSIVE link_nodes_anyroot(_, _, _)
\* link_nodes without the test node->data.id != root_pid
link_nodes_anyroot(ns, i, rpid) ==
    IF i > Len(ns) THEN ns
    ELSE LET parent == find_node_by_pid(ns, ns[i].parent_id)
         IN  IF parent # NULL /\ ns[i].parent = NULL
             THEN link_nodes_anyroot(add_child(ns, parent, i), i + 1, rpid)
             ELSE link_nodes_anyroot(ns, i + 1, rpid)

RECURSIVE link_nodes(_, _, _)
\* build_process_hierarchy, "link all nodes": the loop from index i on
link_nodes(ns, i, rpid) ==
    IF i > Len(ns) THEN ns
    ELSE LET parent == find_node_by_pid(ns, ns[i].parent_id)
         IN  IF ns[i].id # rpid /\ parent # NULL /\ ns[i].parent = NULL
             THEN link_nodes(add_child(ns, parent, i), i + 1, rpid)
             ELSE link_nodes(ns, i + 1, rpid)

\* ------------------------------------------------------------------ main
\* main: argc < 3, usage message and return 1
MainUsage ==
    /\ pc = "start"
    /\ \E n \in {1, 2} : argc' = n
    /\ stdout' = Append(stdout, [text |-> "Usage", nums |-> <<>>])
    /\ exit_status' = 1
    /\ pc' = "exit"
    /\ UNCHANGED <<proc, changes, root_pid, target_pid, option, nodes, root, stack,
                   signals, result, handler>>

\* main: argc >= 3, root_pid = atoi(argv[1]), init_collection
MainStart ==
    /\ pc = "start"
    /\ \E n \in {3, 4} : argc' = n
    /\ \E r \in Pids : root_pid' = r
    /\ pc' = "build"
    /\ UNCHANGED <<proc, changes, target_pid, option, nodes, root, stack, signals,
                   result, handler, stdout, exit_status>>

\* build_process_hierarchy: "add root process"
BuildRoot ==
    /\ pc = "build"
    /\ IF fetch_ok(root_pid)
       THEN LET root_data == fetch_process_data(root_pid)
            IN  /\ nodes' = add_to_collection(nodes,
                       create_node(root_pid, root_data.parent_id,
                                   root_data.defunct_flag))
                /\ root' = Len(nodes')
                /\ stack' = <<[parent_pid |-> root_pid, entry |-> 1]>>
                /\ pc' = "discover"
       ELSE /\ pc' = "link"
            /\ UNCHANGED <<nodes, root, stack>>
    /\ UNCHANGED <<proc, changes, argc, root_pid, target_pid, option, signals, result,
                   handler, stdout, exit_status>>

\* discover_children: one iteration of the readdir loop of the innermost call
DiscoverEntry ==
    /\ pc = "discover"
    /\ stack # <<>>
    /\ LET d   == Len(stack)
           top == stack[d]
           pid == dir_pid(top.entry)
       IN  /\ top.entry <= MaxPid
           /\ d <= MaxDepth
           /\ IF is_new_child(nodes, pid, top.parent_pid)
              THEN /\ nodes' = insert_child(nodes, fetch_process_data(pid),
                                            top.parent_pid)
                   /\ stack' = call_discover_children(stack, pid)
              ELSE /\ stack' = next_entry(stack)
                   /\ UNCHANGED nodes
    /\ UNCHANGED <<proc, changes, pc, argc, root_pid, target_pid, option, root, signals,
                   result, handler, stdout, exit_status>>

\* discover_children: readdir returns NULL, closedir, return to the caller
DiscoverReturn ==
    /\ pc = "discover"
    /\ stack # <<>>
    /\ stack[Len(stack)].entry > MaxPid
    /\ stack' = SubSeq(stack, 1, Len(stack) - 1)
    /\ pc' = IF Len(stack) = 1 THEN "link" ELSE "discover"
    /\ UNCHANGED <<proc, changes, argc, root_pid, target_pid, option, nodes, root,
                   signals, result, handler, stdout, exit_status>>

\* build_process_hierarchy: "link all nodes to establish the tree structure"
LinkNodes ==
    /\ pc = "link"
    /\ nodes' = link_nodes(nodes, 1, root_pid)
    /\ pc' = "dispatch"
    /\ UNCHANGED <<proc, changes, argc, root_pid, target_pid, option, root, stack,
                   signals, result, handler, stdout, exit_status>>

\* -------------------------------------------------------- query functions
\* ids of the children of node n, in children[] order
child_ids(ns, n) ==
    [k \in 1..Len(ns[n].children) |-> ns[ns[n].children[k]].id]

count_zombies(ns) == Cardinality({k \in 1..Len(ns) : ns[k].defunct_flag})

get_direct_descendants(ns, pid) ==
    LET node == find_node_by_pid(ns, pid)
    IN  IF node # NULL THEN child_ids(ns, node) ELSE <<>>

get_grandchildren(ns, pid) ==
    LET node == find_node_by_pid(ns, pid)
    IN  IF node # NULL
        THEN SeqConcat([i \in 1..Len(ns[node].children) |->
                           child_ids(ns, ns[node].children[i])],
                       1, Len(ns[node].children))
        ELSE <<>>

RECURSIVE collect_indirect_descendants(_, _)
collect_indirect_descendants(ns, node) ==
    SeqConcat(
        [i \in 1..Len(ns[node].children) |->
            LET child == ns[node].children[i]
            IN  SeqConcat(
                    [j \in 1..Len(ns[child].children) |->
                        <<ns[ns[child].children[j]].id>> \o
                        collect_indirect_descendants(ns, ns[child].children[j])],
                    1, Len(ns[child].children))],
        1, Len(ns[node].children))

get_indirect_descendants(ns, pid) ==
    LET node == find_node_by_pid(ns, pid)
    IN  IF node # NULL THEN collect_indirect_descendants(ns, node) ELSE <<>>

get_siblings(ns, pid) ==
    LET node == find_node_by_pid(ns, pid)
    IN  IF node # NULL /\ ns[node].parent # NULL
        THEN SelectSeq(child_ids(ns, ns[node].parent), LAMBDA id : id # pid)
        ELSE <<>>

get_defunct_siblings(ns, pid) ==
    LET node == find_node_by_pid(ns, pid)
    IN  IF node # NULL /\ ns[node].parent # NULL
        THEN LET sib == ns[ns[node].parent].children
                 sel == SelectSeq(sib, LAMBDA c : ns[c].id # pid /\ ns[c].defunct_flag)
             IN  [k \in 1..Len(sel) |-> ns[sel[k]].id]
        ELSE <<>>

RECURSIVE collect_defunct_descendants_else(_, _)
\* collect_defunct_descendants descending only below children that are not
\* defunct
collect_defunct_descendants_else(ns, node) ==
    SeqConcat(
        [i \in 1..Len(ns[node].children) |->
            LET child == ns[node].children[i]
            IN  IF ns[child].defunct_flag THEN <<ns[child].id>>
                ELSE collect_defunct_descendants_else(ns, child)],
        1, Len(ns[node].children))

RECURSIVE collect_defunct_descendants(_, _)
collect_defunct_descendants(ns, node) ==
    SeqConcat(
        [i \in 1..Len(ns[node].children) |->
            LET child == ns[node].children[i]
            IN  (IF ns[child].defunct_flag THEN <<ns[child].id>> ELSE <<>>) \o
                collect_defunct_descendants(ns, child)],
        1, Len(ns[node].children))

get_defunct_descendants(ns, pid) ==
    LET node == find_node_by_pid(ns, pid)
    IN  IF node # NULL THEN collect_defunct_descendants(ns, node) ELSE <<>>

\* ------------------------------------------------------- action functions
\* has_ancestor looking at the direct parent only
has_ancestor_direct(ns, parent, pid) ==
    parent # NULL /\ ns[parent].id = pid

RECURSIVE has_ancestor(_, _, _)
\* signal_all_descendants, the while loop: walk up from `parent` looking for pid
has_ancestor(ns, parent, pid) ==
    IF parent = NULL THEN FALSE
    ELSE IF ns[parent].id = pid THEN TRUE
    ELSE has_ancestor(ns, ns[parent].parent, pid)

\* ids signalled (and recorded) by signal_all_descendants, in collection order
signal_all_descendants(ns, pid) ==
    LET node == find_node_by_pid(ns, pid)
    IN  IF node # NULL
        THEN SeqConcat([i \in 1..Len(ns) |->
                           IF has_ancestor(ns, ns[i].parent, pid)
                           THEN <<ns[i].id>> ELSE <<>>],
                       1, Len(ns))
        ELSE <<>>

\* kill_zombie_parents with the test parent_id > 0
kill_zombie_parents_gt0(ns, pid) ==
    LET zombies == get_defunct_descendants(ns, pid)
    IN  SeqConcat([i \in 1..Len(zombies) |->
                      LET zombie == find_node_by_pid(ns, zombies[i])
                      IN  IF zombie # NULL /\ ns[zombie].parent_id > 0
                          THEN <<ns[zombie].parent_id>> ELSE <<>>],
                  1, Len(zombies))

\* ids signalled (and recorded) by kill_zombie_parents
kill_zombie_parents(ns, pid) ==
    LET zombies == get_defunct_descendants(ns, pid)
    IN  SeqConcat([i \in 1..Len(zombies) |->
                      LET zombie == find_node_by_pid(ns, zombies[i])
                      IN  IF zombie # NULL /\ ns[zombie].parent_id > 1
                          THEN <<ns[zombie].parent_id>> ELSE <<>>],
                  1, Len(zombies))

\* the kill() calls of an action function that signals ids with sig
kills(ids, sig) == [k \in 1..Len(ids) |-> <<ids[k], sig>>]

\* -------------------------------------------------------- command registry
command_registry ==
    << [flag |-> "-dc",  handler |-> "handle_count_defunct"],
       [flag |-> "-ds",  handler |-> "handle_non_direct_descendants"],
       [flag |-> "-id",  handler |-> "handle_immediate_descendants"],
       [flag |-> "-lg",  handler |-> "handle_siblings"],
       [flag |-> "-lz",  handler |-> "handle_defunct_siblings"],
       [flag |-> "-df",  handler |-> "handle_defunct_descendants"],
       [flag |-> "-gc",  handler |-> "handle_grandchildren"],
       [flag |-> "-do",  handler |-> "handle_process_status"],
       [flag |-> "--pz", handler |-> "handle_kill_zombie_parents"],
       [flag |-> "-sk",  handler |-> "handle_kill_descendants"],
       [flag |-> "-st",  handler |-> "handle_stop_descendants"],
       [flag |-> "-dt",  handler |-> "handle_continue_descendants"],
       [flag |-> "-rp",  handler |-> "handle_kill_root"] >>

\* name of the handler registered for opt, "" for NULL
find_command_handler(opt) ==
    IF \E k \in 1..Len(command_registry) : command_registry[k].flag = opt
    THEN command_registry[CHOOSE k \in 1..Len(command_registry) :
                              command_registry[k].flag = opt].handler
    ELSE ""

\* values of argv[3] tried: every registered flag and an unregistered one
Options == {command_registry[k].flag : k \in 1..Len(command_registry)}
               \cup {"-zz"}

\* -------------------------------------------------------- output functions
Line(text, nums) == [text |-> text, nums |-> nums]

\* display_results: the empty message (NULL is "") or one id per line
display_results(ids, empty_message) ==
    IF Len(ids) = 0 /\ empty_message # ""
    THEN <<Line(empty_message, <<>>)>>
    ELSE [k \in 1..Len(ids) |-> Line("%d", <<ids[k]>>)]

\* ----------------------------------------------------------- main, part 2
\* A function of handler h writes ids into a CommandResult, one
\* result_ids[count++] = id after the other and without a test of count,
\* sending sigs[k] before it writes ids[k]; ids has more than
\* RESULT_CAPACITY entries.  The write at index RESULT_CAPACITY is outside
\* the malloc'ed block: undefined behaviour.  result keeps the writes up to
\* and with that one; what the process does afterwards is not determined
\* (it may go on, abort in free() or be killed by SIGSEGV).
Overflow(h, opt, tgt, ids, sigs) ==
    /\ handler' = h
    /\ option' = opt
    /\ target_pid' = tgt
    /\ result' = SubSeq(ids, 1, RESULT_CAPACITY + 1)
    /\ signals' = signals \o (IF sigs = <<>> THEN <<>>
                              ELSE SubSeq(sigs, 1, RESULT_CAPACITY + 1))
    /\ exit_status' \in {0, 134, 139}
    /\ pc' = "undefined"
    /\ UNCHANGED <<proc, changes, argc, root_pid, nodes, root, stack, stdout>>

\* the end of main after a handler h returned ids: display_results,
\* free_collection, return 0
Finish(h, opt, tgt, ids, sigs, lines) ==
    IF Len(ids) > RESULT_CAPACITY
    THEN Overflow(h, opt, tgt, ids, sigs)
    ELSE /\ handler' = h
         /\ option' = opt
         /\ target_pid' = tgt
         /\ result' = ids
         /\ signals' = signals \o sigs
         /\ stdout' = stdout \o lines
         /\ exit_status' = 0
         /\ pc' = "exit"
         /\ UNCHANGED <<proc, changes, argc, root_pid, nodes, root, stack>>

\* main, argc == 3: print the target and its parent id
MainBasic ==
    /\ pc = "dispatch"
    /\ argc = 3
    /\ \E tgt \in Pids :
         LET node == find_node_by_pid(nodes, tgt)
         IN  Finish("", "", tgt, <<>>, <<>>,
                    IF node # NULL
                    THEN <<Line("%d %d", <<nodes[node].id, nodes[node].parent_id>>)>>
                    ELSE <<Line("Does not belong to the process tree", <<>>)>>)

\* main: the option names no handler
MainInvalidOption ==
    /\ pc = "dispatch"
    /\ argc > 3
    /\ \E opt \in Options, tgt \in Pids :
         /\ opt # "-rp"
         /\ find_command_handler(opt) = ""
         /\ Finish("", opt, tgt, <<>>, <<>>, <<Line("Invalid option: %s", <<>>)>>)

\* main: a handler exists but the target is not in the collection
MainNotInTree ==
    /\ pc = "dispatch"
    /\ argc > 3
    /\ \E opt \in Options, tgt \in Pids :
         /\ opt # "-rp"
         /\ find_command_handler(opt) # ""
         /\ find_node_by_pid(nodes, tgt) = NULL
         /\ Finish("", opt, tgt, <<>>, <<>>,
                   <<Line("The process %d does not belong to the tree rooted at %d",
                          <<tgt, root_pid>>)>>)

\* main: the option opt names handler h and the target is in the collection
Selected(opt, tgt, h) ==
    /\ opt # "-rp"
    /\ find_command_handler(opt) = h
    /\ find_node_by_pid(nodes, tgt) # NULL

\* main and handle_count_defunct (-dc: print the number of zombies of the collection), then display_results
handle_count_defunct ==
    /\ pc = "dispatch"
    /\ argc > 3
    /\ \E opt \in Options, tgt \in Pids :
         /\ Selected(opt, tgt, "handle_count_defunct")
         /\ LET ids == <<>>
            IN  Finish("handle_count_defunct", opt, tgt, ids, <<>>,
                       <<Line("%d", <<count_zombies(nodes)>>)>> \o display_results(ids, ""))

\* main and handle_non_direct_descendants (-ds), then display_results
handle_non_direct_descendants ==
    /\ pc = "dispatch"
    /\ argc > 3
    /\ \E opt \in Options, tgt \in Pids :
         /\ Selected(opt, tgt, "handle_non_direct_descendants")
         /\ LET ids == get_indirect_descendants(nodes, tgt)
            IN  Finish("handle_non_direct_descendants", opt, tgt, ids, <<>>,
                       <<>> \o display_results(ids, "No non-direct descendants"))

\* main and handle_immediate_descendants (-id), then display_results
handle_immediate_descendants ==
    /\ pc = "dispatch"
    /\ argc > 3
    /\ \E opt \in Options, tgt \in Pids :
         /\ Selected(opt, tgt, "handle_immediate_descendants")
         /\ LET ids == get_direct_descendants(nodes, tgt)
            IN  Finish("handle_immediate_descendants", opt, tgt, ids, <<>>,
                       <<>> \o display_results(ids, "No direct descendants"))

\* main and handle_siblings (-lg), then display_results
handle_siblings ==
    /\ pc = "dispatch"
    /\ argc > 3
    /\ \E opt \in Options, tgt \in Pids :
         /\ Selected(opt, tgt, "handle_siblings")
         /\ LET ids == get_siblings(nodes, tgt)
            IN  Finish("handle_siblings", opt, tgt, ids, <<>>,
                       <<>> \o display_results(ids, "No sibling/s"))

\* main and handle_defunct_siblings (-lz), then display_results
handle_defunct_siblings ==
    /\ pc = "dispatch"
    /\ argc > 3
    /\ \E opt \in Options, tgt \in Pids :
         /\ Selected(opt, tgt, "handle_defunct_siblings")
         /\ LET ids == get_defunct_siblings(nodes, tgt)
            IN  Finish("handle_defunct_siblings", opt, tgt, ids, <<>>,
                       <<>> \o display_results(ids, "No defunct sibling/s"))

\* main and handle_defunct_descendants (-df), then display_results
handle_defunct_descendants ==
    /\ pc = "dispatch"
    /\ argc > 3
    /\ \E opt \in Options, tgt \in Pids :
         /\ Selected(opt, tgt, "handle_defunct_descendants")
         /\ LET ids == get_defunct_descendants(nodes, tgt)
            IN  Finish("handle_defunct_descendants", opt, tgt, ids, <<>>,
                       <<>> \o display_results(ids, "No descendant zombie process/es"))

\* main and handle_grandchildren (-gc), then display_results
handle_grandchildren ==
    /\ pc = "dispatch"
    /\ argc > 3
    /\ \E opt \in Options, tgt \in Pids :
         /\ Selected(opt, tgt, "handle_grandchildren")
         /\ LET ids == get_grandchildren(nodes, tgt)
            IN  Finish("handle_grandchildren", opt, tgt, ids, <<>>,
                       <<>> \o display_results(ids, "No grandchildren"))

\* main and handle_process_status (-do: print the status of the target), then display_results
handle_process_status ==
    /\ pc = "dispatch"
    /\ argc > 3
    /\ \E opt \in Options, tgt \in Pids :
         /\ Selected(opt, tgt, "handle_process_status")
         /\ LET ids == <<>>
            IN  Finish("handle_process_status", opt, tgt, ids, <<>>,
                       <<Line(IF nodes[find_node_by_pid(nodes, tgt)].defunct_flag
                                    THEN "Defunct" ELSE "Not defunct", <<>>)>> \o display_results(ids, ""))

\* main and handle_kill_zombie_parents (--pz), then display_results
handle_kill_zombie_parents ==
    /\ pc = "dispatch"
    /\ argc > 3
    /\ \E opt \in Options, tgt \in Pids :
         /\ Selected(opt, tgt, "handle_kill_zombie_parents")
         /\ LET zombies == get_defunct_descendants(nodes, tgt)
                ids == kill_zombie_parents(nodes, tgt)
            IN  IF Len(zombies) > RESULT_CAPACITY
                THEN Overflow("handle_kill_zombie_parents", opt, tgt, zombies, <<>>)
                ELSE Finish("handle_kill_zombie_parents", opt, tgt, ids,
                            kills(ids, "SIGKILL"),
                            <<>> \o display_results(ids, ""))

\* main and handle_kill_descendants (-sk), then display_results
handle_kill_descendants ==
    /\ pc = "dispatch"
    /\ argc > 3
    /\ \E opt \in Options, tgt \in Pids :
         /\ Selected(opt, tgt, "handle_kill_descendants")
         /\ LET ids == signal_all_descendants(nodes, tgt)
            IN  Finish("handle_kill_descendants", opt, tgt, ids, kills(ids, "SIGKILL"),
                       <<>> \o display_results(ids, ""))

\* main and handle_stop_descendants (-st), then display_results
handle_stop_descendants ==
    /\ pc = "dispatch"
    /\ argc > 3
    /\ \E opt \in Options, tgt \in Pids :
         /\ Selected(opt, tgt, "handle_stop_descendants")
         /\ LET ids == signal_all_descendants(nodes, tgt)
            IN  Finish("handle_stop_descendants", opt, tgt, ids, kills(ids, "SIGSTOP"),
                       <<>> \o display_results(ids, ""))

\* main and handle_continue_descendants (-dt), then display_results
handle_continue_descendants ==
    /\ pc = "dispatch"
    /\ argc > 3
    /\ \E opt \in Options, tgt \in Pids :
         /\ Selected(opt, tgt, "handle_continue_descendants")
         /\ LET ids == signal_all_descendants(nodes, tgt)
            IN  Finish("handle_continue_descendants", opt, tgt, ids, kills(ids, "SIGCONT"),
                       <<>> \o display_results(ids, ""))

\* kill_root signalling the root id of the command line without a look at
\* collection->root
kill_root_unguarded(ns, rt) == <<<<root_pid, "SIGKILL">>>>

\* the kill() calls of handle_kill_root
kill_root(ns, rt) == IF rt # NULL THEN <<<<ns[rt].id, "SIGKILL">>>> ELSE <<>>

\* main, option "-rp": handle_kill_root without looking the target up
handle_kill_root ==
    /\ pc = "dispatch"
    /\ argc > 3
    /\ \E tgt \in Pids :
         Finish("handle_kill_root", "-rp", tgt, <<>>, kill_root(nodes, root),
                display_results(<<>>, ""))

Next ==
    \/ MainUsage
    \/ MainStart
    \/ BuildRoot
    \/ DiscoverEntry
    \/ DiscoverReturn
    \/ LinkNodes
    \/ MainBasic
    \/ MainInvalidOption
    \/ MainNotInTree
    \/ handle_count_defunct
    \/ handle_non_direct_descendants
    \/ handle_immediate_descendants
    \/ handle_siblings
    \/ handle_defunct_siblings
    \/ handle_defunct_descendants
    \/ handle_grandchildren
    \/ handle_process_status
    \/ handle_kill_zombie_parents
    \/ handle_kill_descendants
    \/ handle_stop_descendants
    \/ handle_continue_descendants
    \/ handle_kill_root

Spec == Init /\ [][Next]_vars

\* ------------------------------------------------------ large trees
\* The snapshot of n processes 1..n in which process 1 is the parent of all
\* others, which are all zombies (z) or all alive
StarSnapshot(n, z) ==
    [p \in 1..n |-> [present |-> TRUE,
                     parent_id |-> IF p = 1 THEN 0 ELSE 1,
                     defunct_flag |-> z /\ p # 1]]

\* The collection that build_process_hierarchy returns on StarSnapshot(n, z)
\* for root 1: the root, then its children in directory order, each linked
\* under the root when it was inserted
StarNodes(n, z) ==
    [k \in 1..n |->
        IF k = 1
        THEN [id |-> 1, parent_id |-> 0, defunct_flag |-> FALSE,
              parent |-> NULL, children |-> [j \in 1..(n - 1) |-> j + 1]]
        ELSE [id |-> k, parent_id |-> 1, defunct_flag |-> z,
              parent |-> 1, children |-> <<>>]]

\* numbers of processes around the capacity of a CommandResult: with
\* RESULT_CAPACITY + 1 processes the root has RESULT_CAPACITY descendants
StarSizes == {RESULT_CAPACITY, RESULT_CAPACITY + 1, RESULT_CAPACITY + 2}

\* main after build_process_hierarchy has returned on a star, with an option
InitStar ==
    \E n \in StarSizes, z \in BOOLEAN :
        /\ proc = StarSnapshot(n, z)
        /\ changes = 0
        /\ pc = "dispatch"
        /\ argc = 4
        /\ root_pid = 1
        /\ target_pid = 0
        /\ option = ""
        /\ nodes = StarNodes(n, z)
        /\ root = 1
        /\ stack = <<>>
        /\ signals = <<>>
        /\ result = <<>>
        /\ handler = ""
        /\ stdout = <<>>
        /\ exit_status = -1

\* main from the dispatch on: the handlers that fill a CommandResult
NextStar ==
    \/ handle_count_defunct
    \/ handle_non_direct_descendants
    \/ handle_immediate_descendants
    \/ handle_siblings
    \/ handle_defunct_siblings
    \/ handle_defunct_descendants
    \/ handle_grandchildren
    \/ handle_process_status
    \/ handle_kill_zombie_parents
    \/ handle_kill_descendants
    \/ handle_stop_descendants
    \/ handle_continue_descendants
    \/ handle_kill_root

StarSpec == InitStar /\ [][NextStar]_vars

\* ------------------------------------------------ the live process table
\* what /proc/<pid>/status can show after a change
LiveEntries ==
    {Absent} \cup [present : {TRUE}, parent_id : 0..MaxPid,
                   defunct_flag : {FALSE}]

\* main is entered on a forest in which every process is present
InitRace ==
    InitWith(Forests([present : {TRUE}, parent_id : 0..(MaxPid - 1),
                      defunct_flag : {FALSE}]))

\* The operating system changes the process table between two lookups of
\* the discovery: a process exits, appears or is re-parented.  The program sees a change of an entry at its next lookup of that
\* entry only, so the change is taken right before that lookup: it is the
\* entry that the innermost discover_children call reads next.
ProcChange ==
    /\ pc = "discover"
    /\ changes < MaxChanges
    /\ stack # <<>>
    /\ stack[Len(stack)].entry <= MaxPid
    /\ \E e \in LiveEntries :
          LET p == dir_pid(stack[Len(stack)].entry)
          IN  /\ e # proc[p]
              /\ proc' = [proc EXCEPT ![p] = e]
    /\ changes' = changes + 1
    /\ UNCHANGED <<pc, argc, root_pid, target_pid, option, nodes, root, stack,
                   signals, result, handler, stdout, exit_status>>

\* main up to the return of build_process_hierarchy, on a live process table
NextRace ==
    \/ MainUsage
    \/ MainStart
    \/ BuildRoot
    \/ DiscoverEntry
    \/ DiscoverReturn
    \/ LinkNodes
    \/ ProcChange

RaceSpec == InitRace /\ [][NextRace]_vars

\* main is one sequential thread: it takes its next step when it has one
LiveSpec == InitLive /\ [][Next]_vars /\ WF_vars(Next)

\* ======================================================================
\* Properties
\* ======================================================================

\* main has returned after calling handler function h
Ran(h) == pc = "exit" /\ handler = h

\* build_process_hierarchy has just returned
Built == pc = "dispatch"

NodeIds == {nodes[k].id : k \in 1..Len(nodes)}

NoDuplicates(seq) == \A a, b \in 1..Len(seq) : seq[a] = seq[b] => a = b

RECURSIVE Up(_, _)
\* the node k parent links above node n (NULL when the chain ends earlier)
Up(n, k) ==
    IF k = 0 \/ n = NULL THEN n ELSE Up(nodes[n].parent, k - 1)

\* ids of the nodes whose k-th ancestor by parent links is the node with id pid
DescendantsAt(pid, k) ==
    {nodes[n].id : n \in {m \in 1..Len(nodes) :
                            Up(m, k) # NULL /\ nodes[Up(m, k)].id = pid}}

\* ids of the descendants of pid at depth k or deeper
DescendantsFrom(pid, k) ==
    UNION {DescendantsAt(pid, d) : d \in k..Len(nodes)}

RECURSIVE Below(_, _)
\* nodes k levels below the nodes of set S, following children sequences
Below(S, k) ==
    IF k = 0 THEN S
    ELSE Below(UNION {Range(nodes[n].children) : n \in S}, k - 1)

\* ids of the proper descendants of pid, following children sequences
SubtreeIds(pid) ==
    {nodes[n].id :
        n \in UNION {Below({m \in 1..Len(nodes) : nodes[m].id = pid}, d) :
                        d \in 1..Len(nodes)}}

\* ---------------------------------------------------------------- C1
\* C1 (as claimed): after -ds, the ids listed are exactly the descendants of
\* the target at depth >= 2, each once; every grandchild is listed and the
\* rest of the list is exactly the descendants at depth >= 3.
C1_IndirectAllDepths ==
    Ran("handle_non_direct_descendants") =>
        /\ NoDuplicates(result)
        /\ Range(result) = DescendantsFrom(target_pid, 2)
        /\ Range(get_grandchildren(nodes, target_pid)) \subseteq Range(result)
        /\ Range(result) \ Range(get_grandchildren(nodes, target_pid))
              = DescendantsFrom(target_pid, 3)

RECURSIVE ZombieParents(_)
ZombieParents(zs) ==
    IF zs = <<>> THEN <<>>
    ELSE (IF proc[Head(zs)].parent_id > 1
          THEN <<proc[Head(zs)].parent_id>> ELSE <<>>) \o ZombieParents(Tail(zs))

\* C3: after --pz, the ids recorded and the kill signals sent are the parent
\* ids of defunctDescendants(target), in that order, duplicates kept, parent
\* ids <= 1 left out; no signal goes to an id <= 1.
C3_ZombieParents ==
    Ran("handle_kill_zombie_parents") =>
        /\ result = ZombieParents(get_defunct_descendants(nodes, target_pid))
        /\ signals = [k \in 1..Len(result) |-> <<result[k], "SIGKILL">>]
        /\ \A k \in 1..Len(signals) : signals[k][1] > 1

\* two zombies share a parent that is signalled twice, and a zombie child of
\* process 1 is left out
C3_Witness ==
    /\ Ran("handle_kill_zombie_parents")
    /\ root_pid = 1 /\ target_pid = 1
    /\ Len(result) >= 2 /\ result[1] = result[2]
    /\ Len(get_defunct_descendants(nodes, target_pid)) > Len(result)

\* ---------------------------------------------------------------- C4
SignalFlags == {"-sk", "-st", "-dt"}

SignalOf(opt) ==
    CASE opt = "-sk" -> "SIGKILL" [] opt = "-st" -> "SIGSTOP" [] opt = "-dt" -> "SIGCONT"

\* C4: after -sk, -st or -dt the ids signalled and recorded are exactly the
\* proper descendants of the target, each once; the target and the nodes
\* outside its subtree are not signalled; with a target that is not in the
\* tree nothing is signalled.
C4_SignalDescendants ==
    (pc = "exit" /\ option \in SignalFlags) =>
        IF find_node_by_pid(nodes, target_pid) # NULL
        THEN /\ handler = find_command_handler(option)
             /\ NoDuplicates(result)
             /\ Range(result) = SubtreeIds(target_pid)
             /\ Range(result) = Range(get_direct_descendants(nodes, target_pid))
                                  \cup DescendantsFrom(target_pid, 2)
             /\ target_pid \notin Range(result)
             /\ signals = [k \in 1..Len(result) |-> <<result[k], SignalOf(option)>>]
        ELSE handler = "" /\ signals = <<>> /\ result = <<>>

\* a target below the root with a grandchild is signalled around: its
\* descendants get the signal, its parent and itself do not
C4_Witness ==
    /\ pc = "exit" /\ option = "-st"
    /\ target_pid # root_pid
    /\ find_node_by_pid(nodes, target_pid) # NULL
    /\ Len(signals) >= 2
    /\ DescendantsAt(target_pid, 2) # {}

\* ---------------------------------------------------------------- C5
RECURSIVE Parented(_, _)
\* the processes of the snapshot whose chain of parent ids reaches a member
\* of S in at most k steps, with S
Parented(S, k) ==
    IF k = 0 THEN S
    ELSE Parented(S \cup {p \in Pids : fetch_ok(p) /\ proc[p].parent_id \in S},
                  k - 1)

TimesChild(m, n) ==
    Cardinality({k \in 1..Len(nodes[m].children) : nodes[m].children[k] = n})

\* C6: in the built tree every node but the root has a parent pointer to the
\* node whose id is its recorded parent id, and is in that node's children
\* exactly once; every entry of a children sequence points back to its owner.
C6_LinksAgree ==
    Built =>
        /\ \A n \in 1..Len(nodes) :
              n # root =>
                 /\ nodes[n].parent # NULL
                 /\ nodes[nodes[n].parent].id = nodes[n].parent_id
                 /\ TimesChild(nodes[n].parent, n) = 1
        /\ \A m \in 1..Len(nodes) :
              \A k \in 1..Len(nodes[m].children) :
                 nodes[nodes[m].children[k]].parent = m

\* a node with two children, one of which has a child of its own
C6_Witness ==
    /\ Built
    /\ \E m \in 1..Len(nodes) :
          /\ Len(nodes[m].children) >= 2
          /\ \E k \in 1..Len(nodes[m].children) :
                nodes[nodes[m].children[k]].children # <<>>

\* ---------------------------------------------------------------- C7
\* following parent links from n reaches the root without meeting a node twice
ReachesRoot(n) ==
    \E k \in 0..(Len(nodes) - 1) :
        /\ Up(n, k) = root
        /\ \A a, b \in 0..k : Up(n, a) = Up(n, b) => a = b

\* C7: whatever the parent ids of the snapshot, the structure built so far is
\* a rooted tree: ids pairwise distinct, no parent link at the root, and the
\* root reached from every node by parent links without revisiting a node.
C7_RootedTree ==
    root # NULL =>
        /\ \A a, b \in 1..Len(nodes) : nodes[a].id = nodes[b].id => a = b
        /\ nodes[root].parent = NULL
        /\ \A n \in 1..Len(nodes) : ReachesRoot(n)

\* the parent ids form a cycle through the root: the root's parent id names a
\* grandchild or deeper descendant of the root
C7_Witness ==
    /\ Built /\ root # NULL
    /\ nodes[root].parent_id \in DescendantsFrom(root_pid, 2)

C10_InputErrorsFail ==
    /\ (pc = "exit" /\ argc < 3) =>
          /\ stdout = <<Line("Usage", <<>>)>>
          /\ signals = <<>>
          /\ exit_status # 0
    /\ (pc = "exit" /\ argc > 3 /\ option # "-rp"
           /\ find_command_handler(option) = "") =>
          /\ stdout = <<Line("Invalid option: %s", <<>>)>>
          /\ signals = <<>>
          /\ exit_status # 0

\* ---------------------------------------------------------------- C8
\* C8: build_process_hierarchy, once called, returns (the nesting of
\* discover_children calls never exceeds the number of processes), and a
\* handler runs, prints or signals only after it has returned.
C8_DiscoveryTerminates ==
    /\ (pc = "build") ~> (pc = "dispatch")
    /\ [](Len(stack) <= MaxPid)
    /\ [][(handler' # handler \/ signals' # signals \/ result' # result
              \/ (stdout' # stdout /\ argc' >= 3))
            => (pc = "dispatch" /\ stack = <<>>)]_vars

\* discovery has returned on a snapshot whose parent ids form a cycle through
\* the root and a handler has run after it
C8_Witness ==
    /\ pc = "exit" /\ handler # ""
    /\ root # NULL
    /\ nodes[root].parent_id \in DescendantsFrom(root_pid, 1)
    /\ Len(nodes) >= 3

\* ---------------------------------------------------------------- C11
\* C11: while the process table changes between the lookups of the discovery,
\* every node that discover_children inserts is linked at once under a node
\* inserted before it; no node but the root is ever without a parent link,
\* and the linking loop of build_process_hierarchy changes nothing.
C11_LinkedWhenInserted ==
    /\ [][(pc = "discover" /\ Len(nodes') > Len(nodes)) =>
            LET n == Len(nodes')
            IN  /\ n = Len(nodes) + 1
                /\ nodes'[n].parent \in 1..Len(nodes)
                /\ nodes'[nodes'[n].parent].id = nodes'[n].parent_id
                /\ n \in Range(nodes'[nodes'[n].parent].children)]_vars
    /\ [](\A n \in 1..Len(nodes) : n # root => nodes[n].parent # NULL)
    /\ [][pc = "link" => nodes' = nodes]_vars

\* the build has returned a tree of three or more nodes in which a node with
\* a child belongs to a process that has exited or changed its parent since
C11_Witness ==
    /\ pc = "dispatch"
    /\ changes >= 1
    /\ Len(nodes) >= 3
    /\ \E n \in 1..Len(nodes) :
          /\ nodes[n].children # <<>>
          /\ n # root
          /\ \/ ~fetch_ok(nodes[n].id)
             \/ proc[nodes[n].id].parent_id # nodes[n].parent_id

\* ---------------------------------------------------------------- C12
\* on the star snapshot of the whole namespace, build_process_hierarchy
\* returns the collection that StarSpec starts from
BuildsStar ==
    \A z \in BOOLEAN :
        (Built /\ root_pid = 1 /\ proc = StarSnapshot(MaxPid, z)) =>
            nodes = StarNodes(MaxPid, z)

\* C12 (as claimed): whatever the tree, no more ids are written into a
\* CommandResult than the RESULT_CAPACITY slots that init_result allocated.
C12_WithinCapacity ==
    Len(result) <= RESULT_CAPACITY
====
